---- MODULE Spec2Model ----
(***************************************************************************)
(* Model of minidump/minidumpfile.py: MinidumpFile.                        *)
(*                                                                         *)
(*   Spec     the whole parse: __parse_header, __parse_directories (with   *)
(*            the trailing __parse_thread_context under its try/except),   *)
(*            __parse_peb, and the return of parse / parse_external /      *)
(*            parse_bytes / parse_buff.                                     *)
(*   SpecStr  __read_unicode_string_property over one mapped segment.      *)
(*   SpecEnv  the environment loop of __parse_peb over one mapped segment. *)
(*                                                                         *)
(* Python values: None is the number 0 where the other values are positive *)
(* numbers, and the string "None" elsewhere; a bytes object is a sequence   *)
(* of numbers 0..255; a str is a sequence of UTF-16 code units.             *)
(* The stream decoders, the buffered reader and the OFFSETS / POINTER_SIZE  *)
(* tables live in other modules of the package; they are modelled by their  *)
(* documented interface.                                                    *)
(***************************************************************************)
EXTENDS Integers, Sequences, FiniteSets, TLC

VARIABLES
    \* ---- the whole parse -------------------------------------------------
    table,          \* the file's directory table: stream-type tags in order
    file,           \* the stream bodies of the file (what the decoders return)
    i,              \* __parse_header: loop index over the table
    directories,    \* self.directories
    d,              \* __parse_directories: index of the next entry of directories
    fields,         \* the typed model fields (self.threads, self.modules, ...)
    t,              \* __parse_thread_context: index of the next thread
    ContextObject,  \* thread.ContextObject of every thread of the thread list
    writes,         \* how many times each thread's ContextObject was assigned
    ctxError,       \* logging.exception('Thread context parsing error!') ran
    x64,            \* self.x64
    pebSet,         \* the PEB fields of the model have been assigned
    pebFailed,      \* an exception was raised inside __parse_peb
    result,         \* what the caller of parse gets
    pc,             \* position of the parse
    \* ---- the mapped segment of the buffered reader ------------------------
    seg,            \* bytes of the one mapped segment, at addresses 0..Len-1
    \* ---- __read_unicode_string_property -----------------------------------
    addr,           \* argument addr
    sx64,           \* argument x64
    ops,            \* the reader calls performed, in order
    sresult,        \* the value returned, or the error raised
    spc,
    \* ---- the environment loop ----------------------------------------------
    environment_va,
    prev_va,        \* environment_va before the last iteration
    env_buffer,
    environment_variables,
    decoded_envs,   \* the decoded_env of every record appended, in order
    iterations,     \* iterations of the loop body started
    exit,           \* why the loop ended
    epc

parseVars == <<table, file, i, directories, d, fields, t, ContextObject, writes,
               ctxError, x64, pebSet, pebFailed, result, pc>>
strVars == <<addr, sx64, ops, sresult, spc>>
envVars == <<environment_va, prev_va, env_buffer, environment_variables,
             decoded_envs, iterations, exit, epc>>
vars == <<parseVars, seg, strVars, envVars>>

\* Bounds of the model.
MaxStreams == 2
MaxThreads == 2
MaxData == 4
MaxUnits == 7

None == 0

----------------------------------------------------------------------------
\* Helpers on sequences.

SeqsUpTo(S, n) == UNION {[1..k -> S] : k \in 0..n}

----------------------------------------------------------------------------
\* Stream-type tags (MINIDUMP_STREAM_TYPE members named by __parse_directories).

TypedStreams ==
    {"ThreadListStream", "ModuleListStream", "MemoryListStream", "SystemInfoStream",
     "ThreadExListStream", "Memory64ListStream", "CommentStreamA", "CommentStreamW",
     "ExceptionStream", "HandleDataStream", "UnloadedModuleListStream",
     "MiscInfoStream", "MemoryInfoListStream", "ThreadInfoListStream"}

\* Tags that __parse_directories only logs: reserved, unimplemented, and a member
\* of the enumeration no branch names (the final else).
SkippedStreams ==
    {"UnusedStream", "ReservedStream0", "ReservedStream1", "FunctionTableStream",
     "SystemMemoryInfoStream", "JavaScriptDataStream", "ProcessVmCountersStream",
     "TokenStream", "HandleOperationListStream"}

StreamTypes == TypedStreams \cup SkippedStreams

\* A tag value of the file that MINIDUMP_DIRECTORY.parse does not turn into an entry.
UserStream == "UserStream"

RawTags == StreamTypes \cup {UserStream}

FieldNames ==
    {"threads", "modules", "memory_segments", "sysinfo", "threads_ex",
     "memory_segments_64", "comment_a", "comment_w", "exception", "handles",
     "unloaded_modules", "misc_info", "memory_info", "thread_info"}

\* The model field each branch of __parse_directories assigns.
FieldOf(tag) ==
    CASE tag = "ThreadListStream" -> "threads"
      [] tag = "ModuleListStream" -> "modules"
      [] tag = "MemoryListStream" -> "memory_segments"
      [] tag = "SystemInfoStream" -> "sysinfo"
      [] tag = "ThreadExListStream" -> "threads_ex"
      [] tag = "Memory64ListStream" -> "memory_segments_64"
      [] tag = "CommentStreamA" -> "comment_a"
      [] tag = "CommentStreamW" -> "comment_w"
      [] tag = "ExceptionStream" -> "exception"
      [] tag = "HandleDataStream" -> "handles"
      [] tag = "UnloadedModuleListStream" -> "unloaded_modules"
      [] tag = "MiscInfoStream" -> "misc_info"
      [] tag = "MemoryInfoListStream" -> "memory_info"
      [] tag = "ThreadInfoListStream" -> "thread_info"

\* MinidumpFile.__init__: every typed field is None.
InitFields == [f \in FieldNames |-> None]

----------------------------------------------------------------------------
\* The stream bodies of the file, as the stream decoders return them.

\* PROCESSOR_ARCHITECTURE tags: the two __parse_thread_context names, and one other.
Archs == {"AMD64", "INTEL", "ARM"}

\* Start addresses are kept as (64 KiB page, offset in page), so that addresses
\* on both sides of 0xFFFFFFFF are representable.
PageSize == 65536
Addr(page, off) == [page |-> page, off |-> off]

\* 0xFFFFFFFF = page 0xFFFF, offset 0xFFFF.
Ceiling32Page == 65535

\* start_virtual_address > 0xFFFFFFFF
Above32(a) == a.page > Ceiling32Page

\* Start addresses of the inputs: a low one, 0xFFFFFFFF, 0x100000000.
LowAddr == Addr(1, 0)
CeilingAddr == Addr(Ceiling32Page, PageSize - 1)
HighAddr == Addr(Ceiling32Page + 1, 0)

\* The decoded 32-bit region lists of the inputs: all below the ceiling, one at
\* the ceiling, one above it, and lists mixing them in both orders.
SampleLists ==
    {<<LowAddr>>, <<CeilingAddr>>, <<HighAddr>>, <<LowAddr, CeilingAddr>>,
     <<LowAddr, HighAddr>>, <<HighAddr, LowAddr>>}

\* threads: for each thread of the decoded thread list, whether its context
\*          record decodes (CONTEXT.parse / WOW64_CONTEXT.parse returns) or raises;
\* arch:    sysinfo.ProcessorArchitecture;
\* mem32:   start addresses of the decoded MemoryListStream;
\* mem64:   start addresses of the decoded Memory64ListStream.
\* A decoded memory list holds at least one region: the truth value of an empty
\* one is decided by the decoder's class, which is outside this file.
Files ==
    [threads : SeqsUpTo(BOOLEAN, MaxThreads),
     arch : Archs,
     mem32 : SampleLists,
     mem64 : {<<Addr(1, 0)>>}]

Has(tbl, tag) == \E k \in 1..Len(tbl) : tbl[k] = tag

\* What the parse never reads is fixed: the body of a stream the table does not
\* name, and the architecture tag and the context records when the table does
\* not name both a thread list and a system-info stream.
Canonical(tbl, f) ==
    /\ Has(tbl, "ThreadListStream") \/ f.threads = <<>>
    /\ Has(tbl, "MemoryListStream") \/ f.mem32 = <<Addr(1, 0)>>
    /\ (Has(tbl, "ThreadListStream") /\ Has(tbl, "SystemInfoStream"))
          \/ (f.arch = "AMD64" /\ \A k \in 1..Len(f.threads) : f.threads[k])

\* The decode of the directory entry at Location.Rva = k: entries are told apart
\* by their location, k being the entry's position in the file's table.
Entry(tag, k) == [StreamType |-> tag, Rva |-> k]

Threads == file.threads
NoContexts == [k \in 1..Len(file.threads) |-> "None"]
NoWrites == [k \in 1..Len(file.threads) |-> 0]

----------------------------------------------------------------------------
\* Idle values of the variables a specification does not use.

StrIdle ==
    /\ addr = 0 /\ sx64 = FALSE /\ ops = <<>> /\ sresult = [kind |-> "none"]
    /\ spc = "idle"

EnvIdle ==
    /\ environment_va = 0 /\ prev_va = 0 /\ env_buffer = <<>>
    /\ environment_variables = <<>> /\ decoded_envs = <<>>
    /\ iterations = 0 /\ exit = "none"
    /\ epc = "idle"

ParseIdle ==
    /\ table = <<>> /\ file = [threads |-> <<>>, arch |-> "AMD64",
                               mem32 |-> <<Addr(1, 0)>>, mem64 |-> <<Addr(1, 0)>>]
    /\ i = 0 /\ directories = <<>> /\ d = 0 /\ fields = InitFields /\ t = 0
    /\ ContextObject = <<>> /\ writes = <<>> /\ ctxError = FALSE
    /\ x64 = "unset" /\ pebSet = FALSE /\ pebFailed = FALSE
    /\ result = "pending" /\ pc = "idle"

----------------------------------------------------------------------------
\* MinidumpFile() followed by mf.file_handle = ...: the state _parse starts in.

Init ==
    /\ table \in SeqsUpTo(RawTags, MaxStreams)
    /\ file \in Files
    /\ Canonical(table, file)
    /\ i = 1
    /\ directories = <<>>
    /\ d = 1
    /\ fields = InitFields
    /\ t = 1
    /\ ContextObject = NoContexts
    /\ writes = NoWrites
    /\ ctxError = FALSE
    /\ x64 = "unset"
    /\ pebSet = FALSE
    /\ pebFailed = FALSE
    /\ result = "pending"
    /\ pc = "header"
    /\ seg = <<>>
    /\ StrIdle
    /\ EnvIdle

----------------------------------------------------------------------------
\* __parse_header

\* MINIDUMP_DIRECTORY.parse: None for a user-defined tag value, else the entry.
DirectoryParse(tag, k) == IF tag = UserStream THEN None ELSE Entry(tag, k)

\* One iteration of the loop over range(NumberOfStreams).
ParseHeaderEntry ==
    /\ pc = "header"
    /\ i <= Len(table)
    /\ directories' = IF table[i] = UserStream
                        THEN directories
                        ELSE Append(directories, DirectoryParse(table[i], i))
    /\ i' = i + 1
    /\ UNCHANGED <<table, file, d, fields, t, ContextObject, writes, ctxError, x64,
                   pebSet, pebFailed, result, pc, seg, strVars, envVars>>

\* The loop ends; _parse calls __parse_directories.
ParseHeaderDone ==
    /\ pc = "header"
    /\ i > Len(table)
    /\ pc' = "dirs"
    /\ UNCHANGED <<table, file, i, directories, d, fields, t, ContextObject, writes,
                   ctxError, x64, pebSet, pebFailed, result, seg, strVars, envVars>>

----------------------------------------------------------------------------
\* __parse_directories

\* Variant: a tag without a decoder resets the thread list.
DispatchSkippedClears(flds, dir) ==
    IF dir.StreamType \in TypedStreams
    THEN [flds EXCEPT ![FieldOf(dir.StreamType)] = dir.Rva]
    ELSE [flds EXCEPT !["threads"] = None]

\* Variant: a field that is already set is kept.
DispatchFirstWins(flds, dir) ==
    IF dir.StreamType \in TypedStreams /\ flds[FieldOf(dir.StreamType)] = None
    THEN [flds EXCEPT ![FieldOf(dir.StreamType)] = dir.Rva]
    ELSE flds

\* The fields after the branch of `dir` has run.
Dispatch(flds, dir) ==
    IF dir.StreamType \in TypedStreams
    THEN [flds EXCEPT ![FieldOf(dir.StreamType)] = dir.Rva]
    ELSE flds

\* One iteration of `for dir in self.directories`, for a tag with a decoder.
\* The decoder returns (a decoder that raises ends the parse with its exception).
DispatchTyped ==
    /\ pc = "dirs"
    /\ d <= Len(directories)
    /\ directories[d].StreamType \in TypedStreams
    /\ fields' = Dispatch(fields, directories[d])
    /\ d' = d + 1
    /\ UNCHANGED <<table, file, i, directories, t, ContextObject, writes, ctxError,
                   x64, pebSet, pebFailed, result, pc, seg, strVars, envVars>>

\* One iteration for a tag that is only logged (reserved, unimplemented, else).
DispatchSkipped ==
    /\ pc = "dirs"
    /\ d <= Len(directories)
    /\ directories[d].StreamType \notin TypedStreams
    /\ fields' = Dispatch(fields, directories[d])
    /\ d' = d + 1
    /\ UNCHANGED <<table, file, i, directories, t, ContextObject, writes, ctxError,
                   x64, pebSet, pebFailed, result, pc, seg, strVars, envVars>>

\* The loop ends; the try block calls __parse_thread_context.
DispatchDone ==
    /\ pc = "dirs"
    /\ d > Len(directories)
    /\ pc' = "ctx"
    /\ UNCHANGED <<table, file, i, directories, d, fields, t, ContextObject, writes,
                   ctxError, x64, pebSet, pebFailed, result, seg, strVars, envVars>>

----------------------------------------------------------------------------
\* __parse_thread_context, called under the try/except of __parse_directories

\* The context shape the loop body decodes for an architecture tag.
ShapeFor(arch) ==
    CASE arch = "AMD64" -> "CONTEXT"
      [] arch = "INTEL" -> "WOW64_CONTEXT"
      [] OTHER -> "None"

\* `if not self.sysinfo or not self.threads: return`
ThreadContextSkip ==
    /\ pc = "ctx"
    /\ fields["sysinfo"] = None \/ fields["threads"] = None
    /\ pc' = "peb"
    /\ UNCHANGED <<table, file, i, directories, d, fields, t, ContextObject, writes,
                   ctxError, x64, pebSet, pebFailed, result, seg, strVars, envVars>>

\* One iteration of `for thread in self.threads.threads` that returns normally:
\* the tag names a shape and the record decodes, or the tag names no shape.
ThreadContextDecode ==
    /\ pc = "ctx"
    /\ fields["sysinfo"] # None /\ fields["threads"] # None
    /\ t <= Len(Threads)
    /\ ShapeFor(file.arch) = "None" \/ Threads[t]
    /\ IF ShapeFor(file.arch) = "None"
       THEN UNCHANGED <<ContextObject, writes>>
       ELSE /\ ContextObject' = [ContextObject EXCEPT ![t] = ShapeFor(file.arch)]
            /\ writes' = [writes EXCEPT ![t] = @ + 1]
    /\ t' = t + 1
    /\ UNCHANGED <<table, file, i, directories, d, fields, ctxError, x64, pebSet,
                   pebFailed, result, pc, seg, strVars, envVars>>

\* One iteration in which the decoder raises: the exception leaves the loop and
\* __parse_thread_context, and is logged by the except clause.
ThreadContextRaise ==
    /\ pc = "ctx"
    /\ fields["sysinfo"] # None /\ fields["threads"] # None
    /\ t <= Len(Threads)
    /\ ShapeFor(file.arch) # "None" /\ ~Threads[t]
    /\ ctxError' = TRUE
    /\ pc' = "peb"
    /\ UNCHANGED <<table, file, i, directories, d, fields, t, ContextObject, writes,
                   x64, pebSet, pebFailed, result, seg, strVars, envVars>>

\* The loop ends; __parse_directories returns and _parse calls __parse_peb.
ThreadContextDone ==
    /\ pc = "ctx"
    /\ fields["sysinfo"] # None /\ fields["threads"] # None
    /\ t > Len(Threads)
    /\ pc' = "peb"
    /\ UNCHANGED <<table, file, i, directories, d, fields, t, ContextObject, writes,
                   ctxError, x64, pebSet, pebFailed, result, seg, strVars, envVars>>

----------------------------------------------------------------------------
\* __parse_peb

\* self.memory_segments and self.memory_segments_64 as Python values.
MemorySegments ==
    [present |-> fields["memory_segments"] # None, regions |-> file.mem32]
MemorySegments64 ==
    [present |-> fields["memory_segments_64"] # None, regions |-> file.mem64]

\* (ms64 is not None) or (ms32 and any(mem.start_virtual_address > 0xFFFFFFFF ...)):
\* `A or B` is A when A is true, else B; `A and B` is A when A is false, else B.
Bitness(ms64, ms32) ==
    IF ms64.present THEN "True"
    ELSE IF ~ms32.present THEN "None"
    ELSE IF \E k \in 1..Len(ms32.regions) : Above32(ms32.regions[k]) THEN "True"
    ELSE "False"

\* OFFSETS[x] and POINTER_SIZE[x] are defined for the two booleans only.
IndexesTables(x) == x \in {"True", "False"}

\* self.x64 = ...; offset_index = self.x64
ParsePebBitness ==
    /\ pc = "peb"
    /\ x64' = Bitness(MemorySegments64, MemorySegments)
    /\ pc' = "peb_walk"
    /\ UNCHANGED <<table, file, i, directories, d, fields, t, ContextObject, writes,
                   ctxError, pebSet, pebFailed, result, seg, strVars, envVars>>

\* self.threads.threads[0] raises when there is no thread list or it is empty,
\* OFFSETS[offset_index] raises when the flag is no boolean.
WalkMustFail ==
    \/ fields["threads"] = None
    \/ Threads = <<>>
    \/ ~IndexesTables(x64)

\* The walk raises: one of the above, or a chased address is not mapped or a
\* read is short (decided by the memory the file holds). Nothing catches the
\* exception in __parse_peb, _parse or parse: the caller gets it, not the model.
ParsePebRaise ==
    /\ pc = "peb_walk"
    /\ pebFailed' = TRUE
    /\ result' = "exception"
    /\ pc' = "done"
    /\ UNCHANGED <<table, file, i, directories, d, fields, t, ContextObject, writes,
                   ctxError, x64, pebSet, seg, strVars, envVars>>

\* The walk completes: every PEB field is assigned.
ParsePebWalk ==
    /\ pc = "peb_walk"
    /\ ~WalkMustFail
    /\ pebSet' = TRUE
    /\ pc' = "return"
    /\ UNCHANGED <<table, file, i, directories, d, fields, t, ContextObject, writes,
                   ctxError, x64, pebFailed, result, seg, strVars, envVars>>

\* `return mf` of parse, parse_external, parse_buff (and parse_bytes through it).
ParseReturn ==
    /\ pc = "return"
    /\ result' = "model"
    /\ pc' = "done"
    /\ UNCHANGED <<table, file, i, directories, d, fields, t, ContextObject, writes,
                   ctxError, x64, pebSet, pebFailed, seg, strVars, envVars>>

Next ==
    \/ ParseHeaderEntry
    \/ ParseHeaderDone
    \/ DispatchTyped
    \/ DispatchSkipped
    \/ DispatchDone
    \/ ThreadContextSkip
    \/ ThreadContextDecode
    \/ ThreadContextRaise
    \/ ThreadContextDone
    \/ ParsePebBitness
    \/ ParsePebRaise
    \/ ParsePebWalk
    \/ ParseReturn

Spec == Init /\ [][Next]_vars

----------------------------------------------------------------------------
\* The buffered reader over the mapped segment `seg` (addresses 0..Len(seg)-1).

\* buff_reader.move(a) succeeds iff a lies in the mapped segment.
Mapped(s, a) == a >= 0 /\ a < Len(s)

\* buff_reader.read(n) at position a: the bytes up to the segment's end, at most n.
ReadBytes(s, a, n) ==
    SubSeq(s, a + 1, IF a + n <= Len(s) THEN a + n ELSE Len(s))

MoveOp(a) == [op |-> "move", arg |-> a]
ReadOp(n) == [op |-> "read", arg |-> n]

\* int.from_bytes(b, "little")
RECURSIVE FromBytes(_)
FromBytes(b) ==
    IF b = <<>> THEN 0 ELSE b[1] + 256 * FromBytes(SubSeq(b, 2, Len(b)))

\* bytes.decode("utf-16") of data that starts with no byte-order mark: one code
\* unit per two bytes, little-endian; an odd number of bytes is an error.
DecodeUtf16(b) ==
    IF Len(b) % 2 = 1
    THEN [kind |-> "error", units |-> <<>>]
    ELSE [kind |-> "str",
          units |-> [k \in 1..(Len(b) \div 2) |-> b[2 * k - 1] + 256 * b[2 * k]]]

\* OFFSETS[x64]["buffer"] and POINTER_SIZE[x64].
BufferOffset(x) == IF x THEN 8 ELSE 4
PointerSize(x) == IF x THEN 8 ELSE 4

Raised == [kind |-> "error", units |-> <<>>]

----------------------------------------------------------------------------
\* __read_unicode_string_property(buff_reader, addr, x64): the reader calls it
\* makes, in order, and what it returns or that it raises.

\* Variant: the buffer-pointer field is read before the length is tested.
ReadUnicodeStringPropertyEager(s, a, x) ==
    IF ~Mapped(s, a) THEN [ops |-> <<MoveOp(a)>>, result |-> Raised]
    ELSE IF ~Mapped(s, a + BufferOffset(x))
    THEN [ops |-> <<MoveOp(a), ReadOp(2), MoveOp(a + BufferOffset(x))>>,
          result |-> Raised]
    ELSE IF FromBytes(ReadBytes(s, a, 2)) = 0
    THEN [ops |-> <<MoveOp(a), ReadOp(2), MoveOp(a + BufferOffset(x)),
                    ReadOp(PointerSize(x))>>,
          result |-> [kind |-> "str", units |-> <<>>]]
    ELSE [ops |-> <<MoveOp(a), ReadOp(2), MoveOp(a + BufferOffset(x)),
                    ReadOp(PointerSize(x))>>,
          result |-> Raised]

\* The function as written.
ReadUnicodeStringProperty(s, a, x) ==
    IF ~Mapped(s, a) THEN [ops |-> <<MoveOp(a)>>, result |-> Raised]
    ELSE
    LET string_length == FromBytes(ReadBytes(s, a, 2))
        ops1 == <<MoveOp(a), ReadOp(2)>>
    IN
    IF string_length = 0
    THEN [ops |-> ops1, result |-> [kind |-> "str", units |-> <<>>]]
    ELSE
    LET pa == a + BufferOffset(x)
        ops2 == Append(ops1, MoveOp(pa))
    IN
    IF ~Mapped(s, pa) THEN [ops |-> ops2, result |-> Raised]
    ELSE
    LET buff_va == FromBytes(ReadBytes(s, pa, PointerSize(x)))
        ops3 == ops2 \o <<ReadOp(PointerSize(x)), MoveOp(buff_va)>>
    IN
    IF ~Mapped(s, buff_va) THEN [ops |-> ops3, result |-> Raised]
    ELSE [ops |-> Append(ops3, ReadOp(string_length)),
          result |-> DecodeUtf16(ReadBytes(s, buff_va, string_length))]

\* Bytes of the bounded inputs: NUL, 'A', and 1 (a non-zero high byte).
DataBytes == {0, 1, 65}

\* Values of the length field's low byte, and of the buffer pointer's low byte
\* relative to the end of the descriptor (the last one is far outside the segment).
LengthBytes == {0, 1, 2, 4}
PointerDeltas == {0, 2, 200}

Zeros(n) == [k \in 1..n |-> 0]

\* A UNICODE_STRING descriptor at address 0: Length, padding up to the buffer
\* offset, the buffer pointer.
Descriptor(len, ptr, x) ==
    <<len, 0>> \o Zeros(BufferOffset(x) - 2) \o <<ptr>> \o Zeros(PointerSize(x) - 1)

DescriptorSize(x) == BufferOffset(x) + PointerSize(x)

InitStr ==
    /\ sx64 \in BOOLEAN
    /\ \E len \in LengthBytes, delta \in PointerDeltas,
          data \in SeqsUpTo(DataBytes, MaxData) :
          seg = Descriptor(len, DescriptorSize(sx64) + delta, sx64) \o data
    /\ addr \in {0, 300}     \* the descriptor's address, or an unmapped one
    /\ ops = <<>>
    /\ sresult = [kind |-> "none"]
    /\ spc = "call"
    /\ ParseIdle
    /\ EnvIdle

\* The call, from entry to return or raise.
ReadString ==
    /\ spc = "call"
    /\ ops' = ReadUnicodeStringProperty(seg, addr, sx64).ops
    /\ sresult' = ReadUnicodeStringProperty(seg, addr, sx64).result
    /\ spc' = "returned"
    /\ UNCHANGED <<parseVars, seg, addr, sx64, envVars>>

NextStr == ReadString

SpecStr == InitStr /\ [][NextStr]_vars

\* C8: a call on a mapped descriptor whose 2-byte length field is 0 returns the
\* empty string after exactly one move and one 2-byte read: the buffer-pointer
\* field is not read and the buffer pointer is not dereferenced.
C8_ZeroLengthReadsNothingMore ==
    (/\ spc = "returned"
     /\ Mapped(seg, addr) /\ Mapped(seg, addr + 1)
     /\ seg[addr + 1] = 0 /\ seg[addr + 2] = 0)
    => /\ sresult = [kind |-> "str", units |-> <<>>]
       /\ ops = <<MoveOp(addr), ReadOp(2)>>

\* A zero-length descriptor whose buffer pointer is not mapped was read.
C8_Witness ==
    /\ spc = "returned"
    /\ Mapped(seg, addr)
    /\ seg[addr + 1] = 0 /\ seg[addr + 2] = 0
    /\ ~Mapped(seg, FromBytes(ReadBytes(seg, addr + BufferOffset(sx64),
                                        PointerSize(sx64))))
    /\ sresult = [kind |-> "str", units |-> <<>>]

----------------------------------------------------------------------------
\* The environment loop of __parse_peb.

\* bytes.find(b"\x00\x00"): the least 0-based index of two adjacent zero bytes,
\* -1 when there is none.
Find00(b) ==
    LET hits == {k \in 0..(Len(b) - 2) : b[k + 1] = 0 /\ b[k + 2] = 0}
    IN IF hits = {} THEN -1
       ELSE CHOOSE k \in hits : \A m \in hits : k <= m

\* The UTF-16 code unit of '='.
EqualsSign == 61

\* str.split("="): the pieces between the separators, in order.
RECURSIVE Split(_, _)
Split(u, sep) ==
    IF \A k \in 1..Len(u) : u[k] # sep THEN <<u>>
    ELSE LET p == CHOOSE k \in 1..Len(u) :
                    u[k] = sep /\ \A m \in 1..(k - 1) : u[m] # sep
         IN <<SubSeq(u, 1, p - 1)>> \o Split(SubSeq(u, p + 1, Len(u)), sep)

\* (env_buffer[:env_len] + b"\x00").decode("utf-16")
DecodedEnv(buf, env_len) == DecodeUtf16(Append(SubSeq(buf, 1, env_len), 0))

\* environment_va += (len(decoded_env) + 1) * 2
AdvancedVa(va, decoded_env) == va + (Len(decoded_env) + 1) * 2

\* Code units of the bounded inputs: NUL, '=', 'A', and two units whose high
\* byte is not zero: U+0100 (low byte zero) and U+0141.
Units == {0, EqualsSign, 65, 256, 321}

\* The UTF-16LE bytes of a sequence of code units.
Encode(u) ==
    [k \in 1..(2 * Len(u)) |->
        IF k % 2 = 1 THEN u[(k + 1) \div 2] % 256 ELSE u[k \div 2] \div 256]

\* The state in which __parse_peb has read the environment pointer: the pointer
\* is the start of the mapped segment, which holds the bytes of the block.
InitEnv ==
    /\ \E u \in SeqsUpTo(Units, MaxUnits) : seg = Encode(u)
    /\ environment_va = 0
    /\ prev_va = 0
    /\ env_buffer = <<>>
    /\ environment_variables = <<>>
    /\ decoded_envs = <<>>
    /\ iterations = 0
    /\ exit = "none"
    /\ epc = "start"
    /\ ParseIdle
    /\ StrIdle

\* buff_reader.move(environment_va) and the first read of the rest of the segment.
EnvStart ==
    /\ epc = "start"
    /\ IF Mapped(seg, environment_va)
       THEN /\ env_buffer' = ReadBytes(seg, environment_va, Len(seg) - environment_va)
            /\ epc' = "test"
            /\ exit' = exit
       ELSE /\ env_buffer' = env_buffer
            /\ epc' = "done"
            /\ exit' = "unmapped"
    /\ UNCHANGED <<parseVars, seg, strVars, environment_va, prev_va,
                   environment_variables, decoded_envs, iterations>>

\* The loop condition is false: find returned 0 or -1.
EnvScanEnd ==
    /\ epc = "test"
    /\ Find00(env_buffer) \in {0, -1}
    /\ epc' = "done"
    /\ exit' = "scan_end"
    /\ UNCHANGED <<parseVars, seg, strVars, environment_va, prev_va, env_buffer,
                   environment_variables, decoded_envs, iterations>>

\* The body raises UnicodeDecodeError: the slice has an odd number of bytes.
EnvDecodeError ==
    /\ epc = "test"
    /\ Find00(env_buffer) > 0
    /\ DecodedEnv(env_buffer, Find00(env_buffer)).kind = "error"
    /\ iterations' = iterations + 1
    /\ epc' = "done"
    /\ exit' = "decode_error"
    /\ UNCHANGED <<parseVars, seg, strVars, environment_va, prev_va, env_buffer,
                   environment_variables, decoded_envs>>

\* The body raises IndexError: decoded_env.split("=")[1] on an entry without '='.
EnvIndexError ==
    /\ epc = "test"
    /\ Find00(env_buffer) > 0
    /\ DecodedEnv(env_buffer, Find00(env_buffer)).kind = "str"
    /\ Len(Split(DecodedEnv(env_buffer, Find00(env_buffer)).units, EqualsSign)) < 2
    /\ iterations' = iterations + 1
    /\ epc' = "done"
    /\ exit' = "index_error"
    /\ UNCHANGED <<parseVars, seg, strVars, environment_va, prev_va, env_buffer,
                   environment_variables, decoded_envs>>

\* The name and value the body takes from decoded_env.
EnvRecord(decoded_env) ==
    [name |-> Split(decoded_env, EqualsSign)[1],
     value |-> Split(decoded_env, EqualsSign)[2]]

\* One iteration of the body: the record is appended, the cursor advanced, and
\* the rest of the segment read again; or the move raises because the cursor
\* has left the segment.
EnvEntry ==
    /\ epc = "test"
    /\ Find00(env_buffer) > 0
    /\ DecodedEnv(env_buffer, Find00(env_buffer)).kind = "str"
    /\ LET decoded_env == DecodedEnv(env_buffer, Find00(env_buffer)).units
           va == AdvancedVa(environment_va, decoded_env)
       IN /\ Len(Split(decoded_env, EqualsSign)) >= 2
          /\ environment_variables' =
                Append(environment_variables, EnvRecord(decoded_env))
          /\ decoded_envs' = Append(decoded_envs, decoded_env)
          /\ prev_va' = environment_va
          /\ environment_va' = va
          /\ iterations' = iterations + 1
          /\ IF Mapped(seg, va)
             THEN /\ env_buffer' = ReadBytes(seg, va, Len(seg) - va)
                  /\ epc' = "test"
                  /\ exit' = exit
             ELSE /\ env_buffer' = env_buffer
                  /\ epc' = "done"
                  /\ exit' = "unmapped"
    /\ UNCHANGED <<parseVars, seg, strVars>>

NextEnv ==
    \/ EnvStart
    \/ EnvScanEnd
    \/ EnvDecodeError
    \/ EnvIndexError
    \/ EnvEntry

SpecEnv == InitEnv /\ [][NextEnv]_vars

----------------------------------------------------------------------------
\* Claims checked under Spec.

DispatchFinished == pc \notin {"header", "dirs"}
ContextFinished == pc \notin {"header", "dirs", "ctx"}
ContextRan == fields["sysinfo"] # None /\ fields["threads"] # None

\* C1: whenever the header and the directory table parsed and the PEB walk
\* failed, the caller still receives the model, with the PEB fields unset.
C1_PebFailureIsolated ==
    pebFailed => (result = "model" /\ ~pebSet)

\* C2: once context decoding has ended, a thread whose context record decodes
\* and which follows a thread whose decoding failed has its context attached,
\* whenever the architecture tag is the 64-bit or the 32-bit/WOW64 tag.
C2_LaterThreadsDecoded ==
    (ContextFinished /\ ContextRan) =>
        \A a, b \in 1..Len(Threads) :
            (a < b /\ ~Threads[a] /\ Threads[b] /\ ShapeFor(file.arch) # "None")
                => ContextObject[b] = ShapeFor(file.arch)

\* C3: once __parse_peb has set the bitness flag: no 64-bit list and a 32-bit
\* list with every start address <= 0xFFFFFFFF gives false; no 64-bit list and
\* a 32-bit start address > 0xFFFFFFFF gives true; a 64-bit list gives true;
\* and the flag always is a boolean, one that indexes OFFSETS and POINTER_SIZE.
C3_BitnessInference ==
    x64 # "unset" =>
        /\ (~MemorySegments64.present /\ MemorySegments.present
              /\ \A k \in 1..Len(file.mem32) : ~Above32(file.mem32[k]))
           => x64 = "False"
        /\ (~MemorySegments64.present /\ MemorySegments.present
              /\ \E k \in 1..Len(file.mem32) : Above32(file.mem32[k]))
           => x64 = "True"
        /\ MemorySegments64.present => x64 = "True"
        /\ IndexesTables(x64)

\* C4: once context decoding has ended, every thread of the thread list holds
\* the 64-bit shape under the AMD64 tag and the 32-bit shape under the INTEL
\* tag (if its record decodes at all); under any other tag it holds nothing
\* and no error was reported; and no slot was assigned more than once.
C4_ContextDispatch ==
    /\ \A k \in 1..Len(writes) : writes[k] <= 1
    /\ (ContextFinished /\ ContextRan) =>
        \A k \in 1..Len(Threads) :
            /\ (ShapeFor(file.arch) # "None" /\ Threads[k])
                  => ContextObject[k] = ShapeFor(file.arch)
            /\ ShapeFor(file.arch) = "None"
                  => (ContextObject[k] = "None" /\ ~ctxError)

\* The position in the table of the last entry with this tag, None if none.
LastOfType(tbl, tag) ==
    IF Has(tbl, tag)
    THEN CHOOSE k \in 1..Len(tbl) :
            tbl[k] = tag /\ \A m \in (k + 1)..Len(tbl) : tbl[m] # tag
    ELSE None

\* C6: after all directory entries have been processed, every typed field
\* holds the decode of the last table entry of its stream type, and None when
\* the table has no entry of that type.
C6_LastWins ==
    DispatchFinished =>
        \A tag \in TypedStreams : fields[FieldOf(tag)] = LastOfType(table, tag)

\* A state in which a field was assigned twice and holds the second decode.
C6_Witness ==
    /\ pc = "done"
    /\ \E tag \in TypedStreams : table = <<tag, tag>> /\ fields[FieldOf(tag)] = 2

\* The entries of the table that have a decoder, in order, at their locations.
RECURSIVE TypedEntries(_, _)
TypedEntries(tbl, n) ==
    IF n = 0 THEN <<>>
    ELSE IF tbl[n] \in TypedStreams
         THEN Append(TypedEntries(tbl, n - 1), Entry(tbl[n], n))
         ELSE TypedEntries(tbl, n - 1)

\* The fields after dispatching these entries, one after the other.
RECURSIVE Dispatched(_)
Dispatched(entries) ==
    IF entries = <<>> THEN InitFields
    ELSE Dispatch(Dispatched(SubSeq(entries, 1, Len(entries) - 1)),
                  entries[Len(entries)])

\* The table positions at most n whose tag is not a user-defined one.
Recorded(tbl, n) == {k \in 1..n : tbl[k] # UserStream}

\* C7: at every point of the directory loop the typed fields are those that
\* dispatching only the entries with a decoder, among the table entries handled
\* so far, would have produced: a reserved, unknown, user-defined or
\* unimplemented entry changes no field, and the entries after it are dispatched
\* as if it were absent. No such entry raises: the loop reaches the end of the
\* table and nothing is reported to the caller before it does.
C7_SkippedStreamsInert ==
    /\ pc = "header" => fields = InitFields
    /\ pc \in {"header", "dirs"} => result = "pending"
    /\ pc # "header" =>
        /\ Len(directories) = Cardinality(Recorded(table, Len(table)))
        /\ d >= 1 /\ d <= Len(directories) + 1
        /\ fields = Dispatched(TypedEntries(table,
                        IF d > Len(directories) THEN Len(table)
                        ELSE directories[d].Rva - 1))
    /\ DispatchFinished => d = Len(directories) + 1

\* A state in which a skipped entry was followed by a typed one, now dispatched.
C7_Witness ==
    /\ pc = "done"
    /\ Len(table) = 2
    /\ table[1] \in SkippedStreams \cup {UserStream}
    /\ table[2] \in TypedStreams
    /\ fields[FieldOf(table[2])] = 2

----------------------------------------------------------------------------
\* Claims checked under SpecEnv.

\* The code units the segment holds.
BlockUnits == DecodeUtf16(seg).units

\* The entries of a block e1 NUL e2 NUL ... en NUL NUL.
BlockEntries ==
    LET pieces == Split(BlockUnits, 0)
    IN SubSeq(pieces, 1, Len(pieces) - 2)

HasEquals(u) == \E k \in 1..Len(u) : u[k] = EqualsSign

\* The segment is n >= 0 entries KEY=VALUE, each followed by NUL, then one NUL.
WellFormedBlock ==
    LET pieces == Split(BlockUnits, 0)
    IN /\ Len(pieces) >= 2
       /\ pieces[Len(pieces)] = <<>>
       /\ pieces[Len(pieces) - 1] = <<>>
       /\ \A k \in 1..(Len(pieces) - 2) :
            /\ HasEquals(pieces[k])
            /\ pieces[k][1] # EqualsSign

\* An entry cut at its first '='.
FirstSplit(u) ==
    LET p == CHOOSE k \in 1..Len(u) :
                u[k] = EqualsSign /\ \A m \in 1..(k - 1) : u[m] # EqualsSign
    IN [name |-> SubSeq(u, 1, p - 1), value |-> SubSeq(u, p + 1, Len(u))]

\* C5: on a well-formed block of n entries the scan ends normally with exactly
\* n records, the k-th one being the name and value of the k-th entry, whatever
\* UTF-16 code units the entries hold.
C5_EnvironmentBlockDecoded ==
    (epc = "done" /\ WellFormedBlock) =>
        /\ exit = "scan_end"
        /\ environment_variables =
              [k \in 1..Len(BlockEntries) |-> FirstSplit(BlockEntries[k])]

\* C9: every record appended is its decoded entry cut at the first '=':
\* name, '=', value put together give the entry back.
C9_SplitOnFirstEquals ==
    \A k \in 1..Len(environment_variables) :
        environment_variables[k].name \o <<EqualsSign>>
            \o environment_variables[k].value = decoded_envs[k]

\* C10: the scan terminates: the cursor never moves backwards, every iteration
\* that advances it does so by at least one code unit and its terminator (4
\* bytes), at most (segment bytes / 2) iterations start, and the loop ends only
\* because no double-NUL is found at a positive offset or because the cursor
\* has left the segment.
C10_ScanTerminates ==
    /\ environment_va >= prev_va
    /\ environment_va # prev_va => environment_va >= prev_va + 4
    /\ 2 * iterations <= Len(seg)
    /\ epc = "done" => exit \in {"scan_end", "unmapped"}

====
